---- MODULE Spec2Model ----
(***************************************************************************)
(* The connection-request state machine of the DevConnect backend          *)
(* (routes/connectionRoutes.js, kept as src/unnamed/part_002) and its chat *)
(* aggregator (the message and group routes, src/unnamed/part_003 and      *)
(* src/controllers/messageController.js).                                  *)
(*                                                                         *)
(* The Connection collection is a set of documents; every route handler is *)
(* one action under Spec (handlers run one at a time) and one action per   *)
(* database round trip under SpecConc (handlers interleave at each await). *)
(* SpecMsg runs the message handlers and SpecGroup the group handlers, one *)
(* at a time, over the Message and Group collections; SpecMark interleaves *)
(* markAsRead calls.                                                       *)
(***************************************************************************)
EXTENDS Integers, FiniteSets, Sequences, TLC

VARIABLES
    conns,      \* the Connection collection: a set of documents
    nextId,     \* number of Connection documents inserted so far
    pre,        \* the Connection collection as the last step found it
    res,        \* the HTTP response on its way to the client, with its request
    inflight,   \* SpecConc, SpecMark: handlers suspended at an await, by slot
    scen,       \* progress of the reject-then-re-request scenario
    msgs,       \* the Message collection: a set of documents
    groups,     \* the Group collection: a set of documents
    now,        \* the clock that stamps createdAt and updatedAt
    preChat,    \* the Message and Group collections as the last step found them
    lastSent,   \* the last message a send stored, with the content submitted
    emitted,    \* the socket events the handler answering now has emitted
    okAnswers   \* per message, the 200 answers of interleaved markAsRead calls

chatVars == <<msgs, groups, now, preChat, lastSent, emitted, okAnswers>>

vars == <<conns, nextId, pre, res, inflight, scen, msgs, groups, now, preChat, lastSent,
          emitted, okAnswers>>

(***************************************************************************)
(* Bounds                                                                  *)
(***************************************************************************)
NUsers == 3
MaxConns == 2
MaxInFlight == 2
MaxTime == 3
MaxGroups == 1
NChatters == 2

(***************************************************************************)
(* Identifiers.  A User's _id is an ObjectId; on the wire (req.body,       *)
(* req.params, req.user.id) an id is a string.  ObjectId.toString() gives  *)
(* the lower-case hex form; Mongoose casts any 24-digit hex string, in     *)
(* either case, to the ObjectId it spells, and throws a CastError on a     *)
(* string that is no ObjectId.                                             *)
(***************************************************************************)
Users == 1..NUsers
GhostId == NUsers + 1
ObjectIds == Users \cup {GhostId}
ConnIds == 1..MaxConns
Slots == 1..MaxInFlight

Str(oid) == [form |-> "lower", oid |-> oid]
Upper(oid) == [form |-> "upper", oid |-> oid]
Absent == [form |-> "absent", oid |-> 0]
Malformed == [form |-> "malformed", oid |-> 0]

IsObjectIdString(s) == s.form \in {"lower", "upper"}
CastObjectId(s) == s.oid

\* what a client puts in req.body.recipientId: nothing, a string that is no
\* ObjectId, any well-formed id, or its own id spelt in upper case
RecipientInputs(u) == {Absent, Malformed} \cup {Str(o) : o \in ObjectIds} \cup {Upper(u)}
\* the :userId and :connectionId route parameters are well-formed ids
UserParams == {Str(o) : o \in ObjectIds}
Actions == {"accept", "reject", "cancel"}

DefaultStatus == "pending"

MsgRequired == "Recipient ID is required"
MsgSelf == "Cannot send connection request to yourself"
MsgExists == "Connection request already exists"
MsgConnected == "You are already connected with this user"
MsgRejected == "Connection request was previously rejected"
MsgUserNotFound == "User not found"
MsgSent == "Connection request sent successfully"
MsgRequestFailed == "Failed to send connection request"

NoData == {}

Response(op, user, param, action, status, message, data) ==
    [op |-> op, user |-> user, param |-> param, action |-> action,
     status |-> status, message |-> message, data |-> data]

(***************************************************************************)
(* The reject-then-re-request scenario: requester a asks b, b rejects, a   *)
(* asks again, a removes the connection, a asks once more.  scen follows   *)
(* consecutive handler calls through these five stages.                    *)
(***************************************************************************)
ScenStart(r) ==
    IF r.op = "request" /\ r.status = 201 /\ r.param = Str(r.data.recipient)
    THEN [stage |-> 1, cid |-> r.data._id, a |-> r.user, b |-> r.data.recipient]
    ELSE [stage |-> 0, cid |-> 0, a |-> 0, b |-> 0]

ScenNext(s, r) ==
    IF s.stage = 1 /\ r.op = "respond" /\ r.user = s.b /\ r.param = s.cid
          /\ r.action = "reject" /\ r.status = 200
    THEN [s EXCEPT !.stage = 2]
    ELSE IF s.stage \in {2, 4} /\ r.op = "request" /\ r.user = s.a /\ r.param = Str(s.b)
    THEN [s EXCEPT !.stage = s.stage + 1]
    ELSE IF s.stage = 3 /\ r.op = "remove" /\ r.user = s.a /\ r.param = s.cid
    THEN [s EXCEPT !.stage = 4]
    ELSE ScenStart(r)

\* a handler is taken up once the previous response has gone out
NoResponse == Response("none", 0, Absent, "", 0, "", NoData)

Ready == res.op = "none"

Track == scen' = ScenNext(scen, res')

(***************************************************************************)
(* Queries on the Connection collection                                    *)
(***************************************************************************)
\* Connection.findOne returns the first match in insertion order
FindOne(S) == IF S = {} THEN {} ELSE {CHOOSE c \in S : \A d \in S : c._id <= d._id}

\* faulty variant: the existence check looks in one direction only
BetweenOneWay(c, a, b) == c.requester = a /\ c.recipient = b

\* { $or: [ {requester: a, recipient: b}, {requester: b, recipient: a} ] }
Between(c, a, b) ==
    \/ (c.requester = a /\ c.recipient = b)
    \/ (c.requester = b /\ c.recipient = a)

\* { $or: [ {requester: u}, {recipient: u} ] }
Involves(c, u) == c.requester = u \/ c.recipient = u

NewConnection(id, requester, recipient) ==
    [_id |-> id, requester |-> requester, recipient |-> recipient,
     status |-> DefaultStatus]

(***************************************************************************)
(* POST /request                                                           *)
(***************************************************************************)
\* faulty variant: a rejected request is reported like a pending one
ConflictMessageGeneric(existing) ==
    IF existing.status = "accepted" THEN MsgConnected ELSE MsgExists

ConflictMessage(existing) ==
    IF existing.status = "accepted" THEN MsgConnected
    ELSE IF existing.status = "rejected" THEN MsgRejected
    ELSE MsgExists

\* faulty variant: a rejected Connection no longer blocks a new request
RequestPrecheckRetryRejected(cs, u, rid) ==
    IF rid.form = "absent"
    THEN [status |-> 400, message |-> MsgRequired]
    ELSE IF Str(u) = rid
    THEN [status |-> 400, message |-> MsgSelf]
    ELSE IF ~IsObjectIdString(rid)
    THEN [status |-> 500, message |-> MsgRequestFailed]
    ELSE LET existing == FindOne({c \in cs : Between(c, u, CastObjectId(rid))
                                             /\ c.status # "rejected"})
         IN  IF existing # {}
             THEN [status |-> 400,
                   message |-> ConflictMessage(CHOOSE c \in existing : TRUE)]
             ELSE [status |-> 0, message |-> ""]

\* the handler up to the result of its first await (the existence check):
\* the response that ends it there, or status 0 to go on
RequestPrecheck(cs, u, rid) ==
    IF rid.form = "absent"
    THEN [status |-> 400, message |-> MsgRequired]
    ELSE IF Str(u) = rid
    THEN [status |-> 400, message |-> MsgSelf]
    ELSE IF ~IsObjectIdString(rid)
    THEN [status |-> 500, message |-> MsgRequestFailed]
    ELSE LET existing == FindOne({c \in cs : Between(c, u, CastObjectId(rid))})
         IN  IF existing # {}
             THEN [status |-> 400,
                   message |-> ConflictMessage(CHOOSE c \in existing : TRUE)]
             ELSE [status |-> 0, message |-> ""]

\* User.findById(recipientId), then the insert
RequestRecipientCheck(rid) ==
    IF CastObjectId(rid) \notin Users
    THEN [status |-> 404, message |-> MsgUserNotFound]
    ELSE [status |-> 201, message |-> MsgSent]

RequestCheck(cs, u, rid) ==
    LET p == RequestPrecheck(cs, u, rid)
    IN  IF p.status # 0 THEN p ELSE RequestRecipientCheck(rid)

Request(u, rid) ==
    LET out == RequestCheck(conns, u, rid)
        doc == NewConnection(nextId + 1, u, CastObjectId(rid))
    IN  /\ Ready
        /\ UNCHANGED chatVars
        /\ out.status = 201 => nextId < MaxConns
        /\ pre' = conns
        /\ IF out.status = 201
           THEN /\ conns' = conns \cup {doc}
                /\ nextId' = nextId + 1
                /\ res' = Response("request", u, rid, "", 201, out.message, doc)
           ELSE /\ UNCHANGED <<conns, nextId>>
                /\ res' = Response("request", u, rid, "", out.status, out.message, NoData)
        /\ UNCHANGED inflight
        /\ Track

(***************************************************************************)
(* PUT /respond/:connectionId                                              *)
(***************************************************************************)
MsgInvalidAction == "Invalid action. Use accept or reject"
MsgNotPending == "Connection request not found or already processed"
MsgRespondFailed == "Failed to respond to connection request"

RespondMessage(action) ==
    IF action = "accept" THEN "Connection request accepted successfully"
    ELSE "Connection request rejected successfully"

\* faulty variant: the lookup does not ask who the recipient is
RespondFilterAnyUser(c, u, cid) == c._id = cid /\ c.status = "pending"

\* { _id: connectionId, recipient: userId, status: 'pending' }
RespondFilter(c, u, cid) == c._id = cid /\ c.recipient = u /\ c.status = "pending"

RespondFind(cs, u, cid) == FindOne({c \in cs : RespondFilter(c, u, cid)})

NewStatus(action) == IF action = "accept" THEN "accepted" ELSE "rejected"

\* document.save() of a loaded document: updateOne({_id}, {$set: modified paths})
SaveStatus(cs, doc) ==
    {IF c._id = doc._id THEN [c EXCEPT !.status = doc.status] ELSE c : c \in cs}

Respond(u, cid, action) ==
    LET found == RespondFind(conns, u, cid)
    IN  /\ Ready
        /\ UNCHANGED chatVars
        /\ pre' = conns
        /\ UNCHANGED <<nextId, inflight>>
        /\ IF action \notin {"accept", "reject"}
           THEN /\ UNCHANGED conns
                /\ res' = Response("respond", u, cid, action, 400, MsgInvalidAction, NoData)
           ELSE IF found = {}
           THEN /\ UNCHANGED conns
                /\ res' = Response("respond", u, cid, action, 404, MsgNotPending, NoData)
           ELSE LET connection == CHOOSE c \in found : TRUE
                    updated == [connection EXCEPT !.status = NewStatus(action)]
                IN  /\ conns' = SaveStatus(conns, updated)
                    /\ res' = Response("respond", u, cid, action, 200,
                                       RespondMessage(action), updated)
        /\ Track

(***************************************************************************)
(* DELETE /remove/:connectionId                                            *)
(***************************************************************************)
MsgNoPermission == "Connection not found or you do not have permission to remove it"
MsgRemoved == "Connection removed successfully"

\* faulty variant: the lookup is by id alone
RemoveFilterById(c, u, cid) == c._id = cid

\* { _id: connectionId, $or: [ {requester: userId}, {recipient: userId} ] }
RemoveFilter(c, u, cid) == c._id = cid /\ Involves(c, u)

RemoveFind(cs, u, cid) == FindOne({c \in cs : RemoveFilter(c, u, cid)})

\* Connection.findByIdAndDelete(connectionId)
DeleteById(cs, cid) == {c \in cs : c._id # cid}

Remove(u, cid) ==
    /\ Ready
    /\ UNCHANGED chatVars
    /\ pre' = conns
    /\ UNCHANGED <<nextId, inflight>>
    /\ IF RemoveFind(conns, u, cid) = {}
       THEN /\ UNCHANGED conns
            /\ res' = Response("remove", u, cid, "", 404, MsgNoPermission, NoData)
       ELSE /\ conns' = DeleteById(conns, cid)
            /\ res' = Response("remove", u, cid, "", 200, MsgRemoved, NoData)
    /\ Track

(***************************************************************************)
(* GET /discover                                                           *)
(***************************************************************************)
\* faulty variant: only the requesters of the caller's connections are gathered
ConnectedUserIdsRequesters(cs, userId) ==
    LET connections == {c \in cs : Involves(c, CastObjectId(userId))}
    IN  {Str(c.requester) : c \in {d \in connections : Str(d.requester) # userId}}
        \cup {userId}

\* the ids gathered into connectedUserIds, the caller's own id included
ConnectedUserIds(cs, userId) ==
    LET connections == {c \in cs : Involves(c, CastObjectId(userId))}
    IN  {Str(c.requester) : c \in {d \in connections : Str(d.requester) # userId}}
        \cup {Str(c.recipient) : c \in {d \in connections : Str(d.recipient) # userId}}
        \cup {userId}

\* User.find({ _id: { $nin: [...] } })
AvailableUsers(cs, userId) ==
    {x \in Users : x \notin {CastObjectId(s) : s \in ConnectedUserIds(cs, userId)}}

Discover(u) ==
    /\ Ready
    /\ UNCHANGED chatVars
    /\ pre' = conns
    /\ UNCHANGED <<conns, nextId, inflight>>
    /\ res' = Response("discover", u, Absent, "", 200, "", AvailableUsers(conns, Str(u)))
    /\ Track

(***************************************************************************)
(* GET /status/:userId                                                     *)
(***************************************************************************)
MsgStatusSelf == "Cannot check connection status with yourself"

\* faulty variant: isSentByMe is taken from the recipient
StatusDataRecipient(cs, currentUserId, userId) ==
    LET connection == FindOne({c \in cs :
                          Between(c, CastObjectId(currentUserId), CastObjectId(userId))})
    IN  IF connection = {}
        THEN [status |-> "none", connectionId |-> 0,
              isSentByMe |-> FALSE, canSendRequest |-> TRUE]
        ELSE LET c == CHOOSE d \in connection : TRUE
             IN  [status |-> c.status, connectionId |-> c._id,
                  isSentByMe |-> (Str(c.recipient) = currentUserId),
                  canSendRequest |-> FALSE]

\* the lookup of the one Connection between the two users; null is 0
StatusData(cs, currentUserId, userId) ==
    LET connection == FindOne({c \in cs :
                          Between(c, CastObjectId(currentUserId), CastObjectId(userId))})
    IN  IF connection = {}
        THEN [status |-> "none", connectionId |-> 0,
              isSentByMe |-> FALSE, canSendRequest |-> TRUE]
        ELSE LET c == CHOOSE d \in connection : TRUE
             IN  [status |-> c.status, connectionId |-> c._id,
                  isSentByMe |-> (Str(c.requester) = currentUserId),
                  canSendRequest |-> FALSE]

Status(u, other) ==
    /\ Ready
    /\ UNCHANGED chatVars
    /\ pre' = conns
    /\ UNCHANGED <<conns, nextId, inflight>>
    /\ IF Str(u) = other
       THEN res' = Response("status", u, other, "", 400, MsgStatusSelf, NoData)
       ELSE res' = Response("status", u, other, "", 200, "",
                            StatusData(conns, Str(u), other))
    /\ Track

(***************************************************************************)
(* GET /stats                                                              *)
(***************************************************************************)
\* faulty variant: accepted connections are counted on the requester's side only
CountAcceptedSent(cs, u) ==
    Cardinality({c \in cs : c.requester = u /\ c.status = "accepted"})

\* Connection.countDocuments(filter): one count per matching document
CountAccepted(cs, u) ==
    Cardinality({c \in cs : \/ (c.requester = u /\ c.status = "accepted")
                            \/ (c.recipient = u /\ c.status = "accepted")})

CountPendingReceived(cs, u) ==
    Cardinality({c \in cs : c.recipient = u /\ c.status = "pending"})

CountPendingSent(cs, u) ==
    Cardinality({c \in cs : c.requester = u /\ c.status = "pending"})

\* User.countDocuments({ _id: { $ne: userId } })
CountOtherUsers(u) == Cardinality({x \in Users : x # u})

Max(a, b) == IF a >= b THEN a ELSE b

StatsData(cs, u) ==
    LET totalConnections == CountAccepted(cs, u)
        pendingReceived == CountPendingReceived(cs, u)
        pendingSent == CountPendingSent(cs, u)
        totalUsers == CountOtherUsers(u)
    IN  [totalConnections |-> totalConnections,
         pendingReceived |-> pendingReceived,
         pendingSent |-> pendingSent,
         availableUsers |->
             Max(0, totalUsers - totalConnections - pendingReceived - pendingSent)]

Stats(u) ==
    /\ Ready
    /\ UNCHANGED chatVars
    /\ pre' = conns
    /\ UNCHANGED <<conns, nextId, inflight>>
    /\ res' = Response("stats", u, Absent, "", 200, "", StatsData(conns, u))
    /\ Track

(***************************************************************************)
(* Interleaved handlers.  A handler gives up control at each await; the    *)
(* steps below are the handlers of Request, Respond and Remove cut at the  *)
(* await between their lookup and their write.  A suspended handler keeps  *)
(* its local variables in its slot.  (User.findById in Request is taken    *)
(* together with the insert: the User collection does not change.)         *)
(***************************************************************************)
IdleSlot == [op |-> "idle"]

RequestBegin(s, u, rid) ==
    LET p == RequestPrecheck(conns, u, rid)
    IN  /\ Ready
        /\ UNCHANGED chatVars
        /\ inflight[s] = IdleSlot
        /\ pre' = conns
        /\ UNCHANGED <<conns, nextId, scen>>
        /\ IF p.status # 0
           THEN /\ res' = Response("request", u, rid, "", p.status, p.message, NoData)
                /\ UNCHANGED inflight
           ELSE /\ inflight' = [inflight EXCEPT ![s] =
                                   [op |-> "request", user |-> u, rid |-> rid]]
                /\ UNCHANGED res

\* variant: the existence check is made again, together with the insert
RequestInsertRechecked(s) ==
    LET h == inflight[s]
        out == RequestCheck(conns, h.user, h.rid)
        doc == NewConnection(nextId + 1, h.user, CastObjectId(h.rid))
    IN  /\ Ready
        /\ UNCHANGED chatVars
        /\ h.op = "request"
        /\ out.status = 201 => nextId < MaxConns
        /\ pre' = conns
        /\ UNCHANGED scen
        /\ inflight' = [inflight EXCEPT ![s] = IdleSlot]
        /\ IF out.status = 201
           THEN /\ conns' = conns \cup {doc}
                /\ nextId' = nextId + 1
                /\ res' = Response("request", h.user, h.rid, "", 201, out.message, doc)
           ELSE /\ UNCHANGED <<conns, nextId>>
                /\ res' = Response("request", h.user, h.rid, "", out.status,
                                   out.message, NoData)

RequestInsert(s) ==
    LET h == inflight[s]
        out == RequestRecipientCheck(h.rid)
        doc == NewConnection(nextId + 1, h.user, CastObjectId(h.rid))
    IN  /\ Ready
        /\ UNCHANGED chatVars
        /\ h.op = "request"
        /\ out.status = 201 => nextId < MaxConns
        /\ pre' = conns
        /\ UNCHANGED scen
        /\ inflight' = [inflight EXCEPT ![s] = IdleSlot]
        /\ IF out.status = 201
           THEN /\ conns' = conns \cup {doc}
                /\ nextId' = nextId + 1
                /\ res' = Response("request", h.user, h.rid, "", 201, out.message, doc)
           ELSE /\ UNCHANGED <<conns, nextId>>
                /\ res' = Response("request", h.user, h.rid, "", out.status,
                                   out.message, NoData)

RespondBegin(s, u, cid, action) ==
    LET found == RespondFind(conns, u, cid)
    IN  /\ Ready
        /\ UNCHANGED chatVars
        /\ inflight[s] = IdleSlot
        /\ pre' = conns
        /\ UNCHANGED <<conns, nextId, scen>>
        /\ IF action \notin {"accept", "reject"}
           THEN /\ res' = Response("respond", u, cid, action, 400, MsgInvalidAction, NoData)
                /\ UNCHANGED inflight
           ELSE IF found = {}
           THEN /\ res' = Response("respond", u, cid, action, 404, MsgNotPending, NoData)
                /\ UNCHANGED inflight
           ELSE LET connection == CHOOSE c \in found : TRUE
                IN  /\ inflight' = [inflight EXCEPT ![s] =
                           [op |-> "respond", user |-> u, action |-> action,
                            connection |-> [connection EXCEPT !.status = NewStatus(action)]]]
                    /\ UNCHANGED res

\* connection.save(): the update matches on _id alone; with the document
\* gone it matches nothing and save() rejects (DocumentNotFoundError)
RespondSave(s) ==
    LET h == inflight[s]
    IN  /\ Ready
        /\ UNCHANGED chatVars
        /\ h.op = "respond"
        /\ pre' = conns
        /\ UNCHANGED <<nextId, scen>>
        /\ inflight' = [inflight EXCEPT ![s] = IdleSlot]
        /\ IF \E c \in conns : c._id = h.connection._id
           THEN /\ conns' = SaveStatus(conns, h.connection)
                /\ res' = Response("respond", h.user, h.connection._id, h.action, 200,
                                   RespondMessage(h.action), h.connection)
           ELSE /\ UNCHANGED conns
                /\ res' = Response("respond", h.user, h.connection._id, h.action, 500,
                                   MsgRespondFailed, NoData)

RemoveBegin(s, u, cid) ==
    /\ Ready
    /\ UNCHANGED chatVars
    /\ inflight[s] = IdleSlot
    /\ pre' = conns
    /\ UNCHANGED <<conns, nextId, scen>>
    /\ IF RemoveFind(conns, u, cid) = {}
       THEN /\ res' = Response("remove", u, cid, "", 404, MsgNoPermission, NoData)
            /\ UNCHANGED inflight
       ELSE /\ inflight' = [inflight EXCEPT ![s] =
                               [op |-> "remove", user |-> u, cid |-> cid]]
            /\ UNCHANGED res

RemoveDelete(s) ==
    LET h == inflight[s]
    IN  /\ Ready
        /\ UNCHANGED chatVars
        /\ h.op = "remove"
        /\ pre' = conns
        /\ UNCHANGED <<nextId, scen>>
        /\ inflight' = [inflight EXCEPT ![s] = IdleSlot]
        /\ conns' = DeleteById(conns, h.cid)
        /\ res' = Response("remove", h.user, h.cid, "", 200, MsgRemoved, NoData)

(***************************************************************************)
(* The chat aggregator.  Message and Group documents.                      *)
(*                                                                         *)
(* req.user.id is a string; a Mongoose query (find, findOne, updateMany,   *)
(* countDocuments, findOneAndUpdate) casts it to the ObjectId it spells,   *)
(* an aggregation pipeline does not cast.                                  *)
(***************************************************************************)
GroupOids == {GhostId + g : g \in 1..MaxGroups}
\* the users who write messages; every user reads
Chatters == 1..NChatters
MsgIds == 1..MaxTime
Unset == 0

\* what the chat handlers leave alone
connVars == <<conns, nextId, pre, inflight, scen>>

\* a string is a sequence of characters
Blank == " "
Text(s) == [form |-> "string", text |-> s]
NoText == [form |-> "absent", text |-> <<>>]

\* String.prototype.trim
RECURSIVE TrimStart(_)
TrimStart(s) == IF s # <<>> /\ Head(s) = Blank THEN TrimStart(Tail(s)) ELSE s

RECURSIVE TrimEnd(_)
TrimEnd(s) ==
    IF s # <<>> /\ s[Len(s)] = Blank THEN TrimEnd(SubSeq(s, 1, Len(s) - 1)) ELSE s

\* faulty variant: the content is stored as submitted
TrimNothing(s) == s

Trim(s) == TrimEnd(TrimStart(s))

MsgContentRequired == "Message content is required"
MsgSendFailed == "Failed to send message"
MsgServerError == "Server error"
MsgValidation == "errors"
MsgRecipientNotFound == "Recipient not found"
MsgNotFoundOrRead == "Message not found or already read"

\* faulty variant: a new message counts as read
NewMessageRead(id, sender, recipient, groupId, content, isGroup, t) ==
    [_id |-> id, sender |-> sender, recipient |-> recipient, groupId |-> groupId,
     content |-> content, isGroup |-> isGroup, read |-> TRUE, createdAt |-> t]

\* new Message({...}) with the schema's defaults, saved at time t
NewMessage(id, sender, recipient, groupId, content, isGroup, t) ==
    [_id |-> id, sender |-> sender, recipient |-> recipient, groupId |-> groupId,
     content |-> content, isGroup |-> isGroup, read |-> FALSE, createdAt |-> t]

\* an optional ObjectId path of a document: unset when the body left it out
CastOptional(s) == IF s.form = "absent" THEN Unset ELSE CastObjectId(s)

(***************************************************************************)
(* POST /send                                                              *)
(***************************************************************************)
SendContents == {NoText, Text(<<Blank>>), Text(<<"a">>), Text(<<Blank, "a", Blank>>)}

\* req.body: { recipient, groupId, content, isGroup }
SendBody(recipient, groupId, content, isGroup) ==
    [recipient |-> recipient, groupId |-> groupId, content |-> content,
     isGroup |-> isGroup]

SendBodies ==
    {SendBody(r, Absent, c, g) :
        r \in {Absent} \cup {Str(v) : v \in Chatters}, c \in SendContents,
        g \in {"omitted", "false"}}
    \cup {SendBody(Absent, g, c, "true") :
        g \in {Malformed} \cup {Str(o) : o \in GroupOids}, c \in SendContents}

\* const { isGroup = false } = req.body
IsGroupOf(body) == body.isGroup = "true"

\* faulty variant: the content is compared without trimming it
SendCheckUntrimmed(body) ==
    IF body.content.form = "absent" THEN 500
    ELSE IF body.content.text = <<>> THEN 400
    ELSE IF IsGroupOf(body) /\ ~IsObjectIdString(body.groupId)
                /\ body.groupId.form # "absent" THEN 500
    ELSE IF ~IsGroupOf(body) /\ body.recipient.form = "malformed" THEN 500
    ELSE 200

\* the status POST /send answers with: content.trim() throws on a missing
\* content, a blank content is refused, an id that is no ObjectId fails the cast
SendCheck(body) ==
    IF body.content.form = "absent" THEN 500
    ELSE IF Trim(body.content.text) = <<>> THEN 400
    ELSE IF IsGroupOf(body) /\ ~IsObjectIdString(body.groupId)
                /\ body.groupId.form # "absent" THEN 500
    ELSE IF ~IsGroupOf(body) /\ body.recipient.form = "malformed" THEN 500
    ELSE 200

\* Group.findByIdAndUpdate(groupId, { updatedAt: new Date() })
TouchGroup(gs, gid, t) ==
    {IF g._id = gid THEN [g EXCEPT !.updatedAt = t] ELSE g : g \in gs}

SendMessageData(u, body, t) ==
    IF IsGroupOf(body)
    THEN NewMessage(t, u, Unset, CastOptional(body.groupId),
                    Trim(body.content.text), TRUE, t)
    ELSE NewMessage(t, u, CastOptional(body.recipient), Unset,
                    Trim(body.content.text), FALSE, t)

ChatSend(u, body) ==
    LET status == SendCheck(body)
        t == now + 1
        message == SendMessageData(u, body, t)
    IN  /\ Ready
        /\ UNCHANGED connVars
        /\ UNCHANGED <<emitted, okAnswers>>
        /\ preChat' = [msgs |-> msgs, groups |-> groups]
        /\ status = 200 => now < MaxTime
        /\ IF status = 200
           THEN /\ groups' = IF IsGroupOf(body)
                             THEN TouchGroup(groups, CastOptional(body.groupId), t)
                             ELSE groups
                /\ msgs' = msgs \cup {message}
                /\ now' = t
                /\ lastSent' = [id |-> t, sender |-> u, content |-> body.content.text]
                /\ res' = Response("send", u, body, "", 200, "", message)
           ELSE /\ UNCHANGED <<msgs, groups, now, lastSent>>
                /\ res' = Response("send", u, body, "", status,
                                   IF status = 400 THEN MsgContentRequired
                                   ELSE MsgSendFailed, NoData)


(***************************************************************************)
(* POST /api/messages (messageController.sendMessage)                      *)
(***************************************************************************)
\* req.body: { recipientId, content }
DirectBody(recipientId, content) == [recipientId |-> recipientId, content |-> content]

DirectBodies ==
    {DirectBody(r, c) :
        r \in {Absent, Malformed, Str(GhostId)} \cup {Str(v) : v \in Chatters},
        c \in {Text(<<>>), Text(<<Blank>>), Text(<<"a">>)}}

\* check(...).notEmpty() on recipientId and content; User.findById(recipientId);
\* the schema trims the content and requires it
SendMessageCheck(body) ==
    IF body.recipientId.form = "absent" \/ body.content.form = "absent"
          \/ body.content.text = <<>>
    THEN [status |-> 400, message |-> MsgValidation]
    ELSE IF ~IsObjectIdString(body.recipientId)
    THEN [status |-> 500, message |-> MsgServerError]
    ELSE IF CastObjectId(body.recipientId) \notin Users
    THEN [status |-> 404, message |-> MsgRecipientNotFound]
    ELSE IF Trim(body.content.text) = <<>>
    THEN [status |-> 500, message |-> MsgServerError]
    ELSE [status |-> 201, message |-> ""]

\* req.io.to(recipientId).emit('newMessage', populatedMessage)
NewMessageEvent(room, message, threw) ==
    [room |-> room, event |-> "newMessage", data |-> message, threw |-> threw]

\* if (req.io): req.io is set, if at all, by code that is not in the controller;
\* a call of emit returns or throws
EmitOutcomes == {"no req.io", "emitted", "threw"}

SendMessage(u, body) ==
    LET out == SendMessageCheck(body)
        t == now + 1
        message == NewMessage(t, u, CastObjectId(body.recipientId), Unset,
                              Trim(body.content.text), FALSE, t)
    IN  /\ Ready
        /\ UNCHANGED connVars
        /\ UNCHANGED okAnswers
        /\ preChat' = [msgs |-> msgs, groups |-> groups]
        /\ out.status = 201 => now < MaxTime
        /\ UNCHANGED groups
        /\ IF out.status = 201
           THEN /\ msgs' = msgs \cup {message}
                /\ now' = t
                /\ lastSent' = [id |-> t, sender |-> u, content |-> body.content.text]
                /\ \E outcome \in EmitOutcomes :
                      \/ /\ outcome = "no req.io"
                         /\ emitted' = {}
                         /\ res' = Response("sendMessage", u, body, "", 201, "", message)
                      \/ /\ outcome = "emitted"
                         /\ emitted' = {NewMessageEvent(body.recipientId, message, FALSE)}
                         /\ res' = Response("sendMessage", u, body, "", 201, "", message)
                      \* the exception lands in the handler's catch
                      \/ /\ outcome = "threw"
                         /\ emitted' = {NewMessageEvent(body.recipientId, message, TRUE)}
                         /\ res' = Response("sendMessage", u, body, "", 500,
                                            MsgServerError, NoData)
           ELSE /\ UNCHANGED <<msgs, now, lastSent, emitted>>
                /\ res' = Response("sendMessage", u, body, "", out.status,
                                   out.message, NoData)

(***************************************************************************)
(* PUT /api/messages/:messageId/read (messageController.markAsRead)        *)
(***************************************************************************)
MessageParams == {Malformed} \cup {Str(i) : i \in MsgIds}

\* faulty variant: any user may mark a message
MarkFilterAnyUser(m, mid, u) == m._id = mid /\ m.read = FALSE

\* faulty variant: the filter leaves out read: false
MarkFilterReadToo(m, mid, u) == m._id = mid /\ m.recipient = u

\* { _id: messageId, recipient: userId, read: false }
MarkFilter(m, mid, u) == m._id = mid /\ m.recipient = u /\ m.read = FALSE

MarkFind(ms, mid, u) == FindOne({m \in ms : MarkFilter(m, mid, u)})

\* findOneAndUpdate(filter, { read: true }, { new: true }) is one document operation
MarkAsRead(u, mid) ==
    /\ Ready
    /\ UNCHANGED connVars
    /\ UNCHANGED <<emitted, okAnswers>>
    /\ preChat' = [msgs |-> msgs, groups |-> groups]
    /\ UNCHANGED <<groups, now, lastSent>>
    /\ IF ~IsObjectIdString(mid)
       THEN /\ UNCHANGED msgs
            /\ res' = Response("markAsRead", u, mid, "", 500, MsgServerError, NoData)
       ELSE LET found == MarkFind(msgs, CastObjectId(mid), u)
            IN  IF found = {}
                THEN /\ UNCHANGED msgs
                     /\ res' = Response("markAsRead", u, mid, "", 404,
                                        MsgNotFoundOrRead, NoData)
                ELSE LET message == CHOOSE m \in found : TRUE
                         updated == [message EXCEPT !.read = TRUE]
                     IN  /\ msgs' = (msgs \ {message}) \cup {updated}
                         /\ res' = Response("markAsRead", u, mid, "", 200, "", updated)

(***************************************************************************)
(* markAsRead, interleaved.  The handler has one await, the                *)
(* findOneAndUpdate; calls that have been taken up wait in their slots and *)
(* the database performs their operations one at a time, in any order.     *)
(***************************************************************************)
MarkAsReadBegin(s, u, mid) ==
    /\ Ready
    /\ inflight[s] = IdleSlot
    /\ inflight' = [inflight EXCEPT ![s] = [op |-> "markAsRead", user |-> u, mid |-> mid]]
    /\ UNCHANGED <<conns, nextId, pre, res, scen>>
    /\ UNCHANGED chatVars

\* the findOneAndUpdate of the call in slot s, and the answer it leads to
MarkAsReadUpdate(s) ==
    LET h == inflight[s]
    IN  /\ Ready
        /\ h.op = "markAsRead"
        /\ inflight' = [inflight EXCEPT ![s] = IdleSlot]
        /\ UNCHANGED <<conns, nextId, pre, scen>>
        /\ UNCHANGED <<groups, now, lastSent, emitted>>
        /\ preChat' = [msgs |-> msgs, groups |-> groups]
        /\ IF ~IsObjectIdString(h.mid)
           THEN /\ UNCHANGED <<msgs, okAnswers>>
                /\ res' = Response("markAsRead", h.user, h.mid, "", 500,
                                   MsgServerError, NoData)
           ELSE LET found == MarkFind(msgs, CastObjectId(h.mid), h.user)
                IN  IF found = {}
                    THEN /\ UNCHANGED <<msgs, okAnswers>>
                         /\ res' = Response("markAsRead", h.user, h.mid, "", 404,
                                            MsgNotFoundOrRead, NoData)
                    ELSE LET message == CHOOSE m \in found : TRUE
                             updated == [message EXCEPT !.read = TRUE]
                         IN  /\ msgs' = (msgs \ {message}) \cup {updated}
                             /\ okAnswers' = [okAnswers EXCEPT ![message._id] = @ + 1]
                             /\ res' = Response("markAsRead", h.user, h.mid, "", 200,
                                                "", updated)


(***************************************************************************)
(* GET /messages/:chatId                                                   *)
(***************************************************************************)
DefaultPage == 1
DefaultLimit == 50

\* a number in the query string
Num(n) == [form |-> "digits", n |-> n]
NoNum == [form |-> "absent", n |-> 0]

\* parseInt(q) || d : a missing parameter parses to NaN, and 0 is falsy too
ParseIntOr(q, d) == IF q.form = "absent" \/ q.n = 0 THEN d ELSE q.n

ChatParams == {Str(o) : o \in Chatters \cup GroupOids}
IsGroupParams == {"omitted", "true", "false"}
Pagings ==
    {[page |-> NoNum, limit |-> NoNum],
     [page |-> Num(2), limit |-> Num(1)]}

\* { $or: [ {sender: userId, recipient: chatId, isGroup: false},
\*          {sender: chatId, recipient: userId, isGroup: false} ] }
DirectFilter(m, u, chat) ==
    \/ (m.sender = u /\ m.recipient = chat /\ m.isGroup = FALSE)
    \/ (m.sender = chat /\ m.recipient = u /\ m.isGroup = FALSE)

\* { groupId: chatId }
GroupFilter(m, chat) == m.groupId = chat

\* .sort({ createdAt: -1 })
RECURSIVE SortNewestFirst(_)
SortNewestFirst(S) ==
    IF S = {} THEN <<>>
    ELSE LET newest == CHOOSE m \in S : \A o \in S : o.createdAt <= m.createdAt
         IN  <<newest>> \o SortNewestFirst(S \ {newest})

\* faulty variant: the window is limit rows long
WindowOnePage(seq, page, limit) ==
    SubSeq(seq, (page - 1) * limit + 1,
           IF Len(seq) < (page - 1) * limit + limit THEN Len(seq)
           ELSE (page - 1) * limit + limit)

\* .limit(limit * page).skip((page - 1) * limit): the skip is applied first
Window(seq, page, limit) ==
    SubSeq(seq, (page - 1) * limit + 1,
           IF Len(seq) < (page - 1) * limit + limit * page THEN Len(seq)
           ELSE (page - 1) * limit + limit * page)

\* Array.prototype.reverse
Reverse(seq) == [i \in 1..Len(seq) |-> seq[Len(seq) + 1 - i]]

FetchMessages(ms, u, chat, isGroup, page, limit) ==
    IF isGroup = "true"
    THEN Window(SortNewestFirst({m \in ms : GroupFilter(m, chat)}), page, limit)
    ELSE Window(SortNewestFirst({m \in ms : DirectFilter(m, u, chat)}), page, limit)

\* { sender: chatId, recipient: userId, read: false }
MarkDirect(m, u, chat) == m.sender = chat /\ m.recipient = u /\ m.read = FALSE

\* { groupId: chatId, sender: { $ne: userId }, read: false }
MarkGroup(m, u, chat) == m.groupId = chat /\ m.sender # u /\ m.read = FALSE

\* which messages updateMany flags as read
MarkedOnFetch(m, u, chat, isGroup) ==
    IF isGroup = "false" THEN MarkDirect(m, u, chat) ELSE MarkGroup(m, u, chat)

UpdateRead(ms, u, chat, isGroup) ==
    {IF MarkedOnFetch(m, u, chat, isGroup) THEN [m EXCEPT !.read = TRUE] ELSE m :
        m \in ms}

ChatMessages(u, chatId, isGroup, paging) ==
    LET page == ParseIntOr(paging.page, DefaultPage)
        limit == ParseIntOr(paging.limit, DefaultLimit)
        chat == CastObjectId(chatId)
        messages == FetchMessages(msgs, u, chat, isGroup, page, limit)
    IN  /\ Ready
        /\ UNCHANGED connVars
        /\ UNCHANGED <<emitted, okAnswers>>
        /\ preChat' = [msgs |-> msgs, groups |-> groups]
        /\ UNCHANGED <<groups, now, lastSent>>
        /\ msgs' = UpdateRead(msgs, u, chat, isGroup)
        /\ res' = Response("messages", u,
                           [chatId |-> chatId, isGroup |-> isGroup, paging |-> paging],
                           "", 200, "", Reverse(messages))

(***************************************************************************)
(* GET /chats                                                              *)
(***************************************************************************)
\* equality inside an aggregation stage: an ObjectId field equals an ObjectId
\* value, never a string
BsonEq(oid, v) == v.form = "objectid" /\ v.oid = oid

\* $match: { $or: [ {sender: userId, isGroup: false},
\*                  {recipient: userId, isGroup: false} ] }
ChatsMatch(m, userId) ==
    \/ (BsonEq(m.sender, userId) /\ m.isGroup = FALSE)
    \/ (BsonEq(m.recipient, userId) /\ m.isGroup = FALSE)

\* $group _id: { $cond: [ { $eq: ['$sender', userId] }, '$recipient', '$sender' ] }
Counterpart(m, userId) == IF BsonEq(m.sender, userId) THEN m.recipient ELSE m.sender

\* $sort createdAt -1, $group with $first and $sum, then $lookup and $unwind
\* on users, which drop a thread whose key is no User
DirectThreads(ms, userId) ==
    LET matched == {m \in ms : ChatsMatch(m, userId)}
        keys == {Counterpart(m, userId) : m \in matched} \cap Users
        thread(k) == {m \in matched : Counterpart(m, userId) = k}
    IN  {[_id |-> k, isGroup |-> FALSE,
          lastMessage |-> {SortNewestFirst(thread(k))[1]},
          unreadCount |-> Cardinality({m \in thread(k) :
                              BsonEq(m.recipient, userId) /\ m.read = FALSE}),
          updatedAt |-> SortNewestFirst(thread(k))[1].createdAt] : k \in keys}

IsMember(g, u) == \E i \in 1..Len(g.members) : g.members[i] = u

\* faulty variant: the caller's own messages count as unread
GroupUnreadAll(ms, gid, u) ==
    Cardinality({m \in ms : m.groupId = gid /\ m.read = FALSE})

\* Message.countDocuments({ groupId, sender: { $ne: userId }, read: false })
GroupUnread(ms, gid, u) ==
    Cardinality({m \in ms : m.groupId = gid /\ m.sender # u /\ m.read = FALSE})

\* Group.find({ members: userId }) with the unread count of each group
GroupThreads(ms, gs, u) ==
    {[_id |-> g._id, isGroup |-> TRUE, lastMessage |-> {},
      unreadCount |-> GroupUnread(ms, g._id, u),
      updatedAt |-> g.updatedAt] : g \in {h \in gs : IsMember(h, u)}}

\* .sort((a, b) => new Date(b.updatedAt) - new Date(a.updatedAt)); threads with
\* equal stamps come in whatever order the store returned them
ChatOrders(S) ==
    {seq \in [1..Cardinality(S) -> S] :
        /\ \A i, j \in 1..Cardinality(S) : i # j => seq[i] # seq[j]
        /\ \A i, j \in 1..Cardinality(S) : i < j => seq[i].updatedAt >= seq[j].updatedAt}

Chats(u) ==
    /\ Ready
    /\ UNCHANGED connVars
    /\ UNCHANGED <<emitted, okAnswers>>
    /\ preChat' = [msgs |-> msgs, groups |-> groups]
    /\ UNCHANGED <<msgs, groups, now, lastSent>>
    /\ \E allChats \in ChatOrders(DirectThreads(msgs, Str(u)) \cup GroupThreads(msgs, groups, u)) :
          res' = Response("chats", u, Absent, "", 200, "", allChats)

(***************************************************************************)
(* POST /groups                                                            *)
(***************************************************************************)
MsgNameRequired == "Group name is required"
MsgMemberRequired == "At least one member is required"
MsgCreateFailed == "Failed to create group"
MsgGroupNotFound == "Group not found"
MsgOnlyCreator == "Only group creator can add members"
MsgAlreadyMembers == "All selected users are already group members"
MsgAddFailed == "Failed to add members"
MsgRemoveForbidden == "You can only remove yourself or if you are the group creator"
MsgRemoveFailed == "Failed to remove member"

\* req.body.members: missing, or an array of id strings (24 hex digits, in
\* either case)
List(l) == [form |-> "list", list |-> l]
NoList == [form |-> "absent", list |-> <<>>]

MemberLists ==
    {NoList, List(<<>>)} \cup {List(<<Str(v)>>) : v \in Users}
        \cup {List(<<Upper(v)>>) : v \in Users}
        \cup {List(<<Str(v), Str(v)>>) : v \in Users}
GroupNames == {Text(<<Blank>>), Text(<<"a">>)}
GroupParams == {Str(o) : o \in GroupOids}

\* [...new Set(list)]: the first occurrence of every string, in order
RECURSIVE Dedupe(_)
Dedupe(l) ==
    IF l = <<>> THEN <<>>
    ELSE LET front == Dedupe(SubSeq(l, 1, Len(l) - 1))
             last == l[Len(l)]
         IN  IF \E i \in 1..Len(front) : front[i] = last
             THEN front ELSE Append(front, last)

\* an array of id strings cast to ObjectIds
CastAll(l) == [i \in 1..Len(l) |-> CastObjectId(l[i])]

AllCastable(l) == \A i \in 1..Len(l) : IsObjectIdString(l[i])

\* faulty variant: the creator is not added to the members
AllMembersAsGiven(members, creatorId) == Dedupe(members)

\* [...new Set([...members, creatorId])]
AllMembers(members, creatorId) == Dedupe(Append(members, creatorId))

CreateGroupCheck(body) ==
    IF body.name.form = "absent" \/ Trim(body.name.text) = <<>>
    THEN [status |-> 400, message |-> MsgNameRequired]
    ELSE IF body.members.form = "absent" \/ body.members.list = <<>>
    THEN [status |-> 400, message |-> MsgMemberRequired]
    ELSE IF ~AllCastable(body.members.list)
    THEN [status |-> 500, message |-> MsgCreateFailed]
    ELSE [status |-> 200, message |-> ""]

NewGroupId(gs) == CHOOSE o \in GroupOids : \A g \in gs : g._id # o

CreateGroup(u, body) ==
    LET out == CreateGroupCheck(body)
        t == now + 1
    IN  /\ Ready
        /\ UNCHANGED connVars
        /\ UNCHANGED <<emitted, okAnswers>>
        /\ preChat' = [msgs |-> msgs, groups |-> groups]
        /\ UNCHANGED <<msgs, lastSent>>
        /\ out.status = 200 => now < MaxTime /\ Cardinality(groups) < MaxGroups
        /\ IF out.status = 200
           THEN LET group == [_id |-> NewGroupId(groups), creator |-> u,
                              members |-> CastAll(AllMembers(body.members.list, Str(u))),
                              updatedAt |-> t]
                IN  /\ groups' = groups \cup {group}
                    /\ now' = t
                    /\ res' = Response("createGroup", u, body, "", 200, "", group)
           ELSE /\ UNCHANGED <<groups, now>>
                /\ res' = Response("createGroup", u, body, "", out.status,
                                   out.message, NoData)

(***************************************************************************)
(* POST /groups/:groupId/members                                           *)
(***************************************************************************)
GroupIdParams == {Malformed} \cup GroupParams

\* Group.findById(groupId)
FindGroup(gs, gid) == {g \in gs : g._id = gid}

\* group.members.includes(member): the array compares the string with the
\* toString() of each ObjectId it holds
MembersInclude(members, s) == \E i \in 1..Len(members) : Str(members[i]) = s

\* members.filter(member => !group.members.includes(member))
NewMembers(g, l) ==
    LET IsNew(s) == ~MembersInclude(g.members, s)
    IN  SelectSeq(l, IsNew)

\* faulty variant: any member may add members
AddMembersCheckAnyMember(gs, u, gid, body) ==
    IF ~IsObjectIdString(gid)
    THEN [status |-> 500, message |-> MsgAddFailed]
    ELSE IF FindGroup(gs, CastObjectId(gid)) = {}
    THEN [status |-> 404, message |-> MsgGroupNotFound]
    ELSE LET g == CHOOSE h \in FindGroup(gs, CastObjectId(gid)) : TRUE
         IN  IF body.form = "absent"
             THEN [status |-> 500, message |-> MsgAddFailed]
             ELSE IF NewMembers(g, body.list) = <<>>
             THEN [status |-> 400, message |-> MsgAlreadyMembers]
             ELSE IF ~AllCastable(NewMembers(g, body.list))
             THEN [status |-> 500, message |-> MsgAddFailed]
             ELSE [status |-> 200, message |-> ""]

AddMembersCheck(gs, u, gid, body) ==
    IF ~IsObjectIdString(gid)
    THEN [status |-> 500, message |-> MsgAddFailed]
    ELSE IF FindGroup(gs, CastObjectId(gid)) = {}
    THEN [status |-> 404, message |-> MsgGroupNotFound]
    ELSE LET g == CHOOSE h \in FindGroup(gs, CastObjectId(gid)) : TRUE
         IN  IF Str(g.creator) # Str(u)
             THEN [status |-> 403, message |-> MsgOnlyCreator]
             ELSE IF body.form = "absent"
             THEN [status |-> 500, message |-> MsgAddFailed]
             ELSE IF NewMembers(g, body.list) = <<>>
             THEN [status |-> 400, message |-> MsgAlreadyMembers]
             ELSE IF ~AllCastable(NewMembers(g, body.list))
             THEN [status |-> 500, message |-> MsgAddFailed]
             ELSE [status |-> 200, message |-> ""]

AddMembers(u, gid, body) ==
    LET out == AddMembersCheck(groups, u, gid, body)
        t == now + 1
    IN  /\ Ready
        /\ UNCHANGED connVars
        /\ UNCHANGED <<emitted, okAnswers>>
        /\ preChat' = [msgs |-> msgs, groups |-> groups]
        /\ UNCHANGED <<msgs, lastSent>>
        /\ out.status = 200 => now < MaxTime
        /\ IF out.status = 200
           THEN LET g == CHOOSE h \in FindGroup(groups, CastObjectId(gid)) : TRUE
                    saved == [g EXCEPT !.members = g.members \o CastAll(NewMembers(g, body.list)),
                                       !.updatedAt = t]
                IN  /\ groups' = (groups \ {g}) \cup {saved}
                    /\ now' = t
                    /\ res' = Response("addMembers", u, [groupId |-> gid, members |-> body],
                                       "", 200, "", saved)
           ELSE /\ UNCHANGED <<groups, now>>
                /\ res' = Response("addMembers", u, [groupId |-> gid, members |-> body],
                                   "", out.status, out.message, NoData)

(***************************************************************************)
(* DELETE /groups/:groupId/members/:memberId                               *)
(***************************************************************************)
MemberParams == {Str(v) : v \in Users}

\* faulty variant: only the creator may remove a member
RemoveMemberAllowedCreatorOnly(g, u, memberId) == Str(g.creator) = Str(u)

\* group.creator.toString() !== userId && memberId !== userId is refused
RemoveMemberAllowed(g, u, memberId) == Str(g.creator) = Str(u) \/ memberId = Str(u)

\* group.members.filter(member => member.toString() !== memberId)
WithoutMember(members, memberId) ==
    LET Stays(m) == Str(m) # memberId
    IN  SelectSeq(members, Stays)

RemoveMember(u, gid, memberId) ==
    LET found == IF IsObjectIdString(gid) THEN FindGroup(groups, CastObjectId(gid)) ELSE {}
        t == now + 1
        param == [groupId |-> gid, memberId |-> memberId]
    IN  /\ Ready
        /\ UNCHANGED connVars
        /\ UNCHANGED <<emitted, okAnswers>>
        /\ preChat' = [msgs |-> msgs, groups |-> groups]
        /\ UNCHANGED <<msgs, lastSent>>
        /\ IF ~IsObjectIdString(gid)
           THEN /\ UNCHANGED <<groups, now>>
                /\ res' = Response("removeMember", u, param, "", 500, MsgRemoveFailed, NoData)
           ELSE IF found = {}
           THEN /\ UNCHANGED <<groups, now>>
                /\ res' = Response("removeMember", u, param, "", 404, MsgGroupNotFound, NoData)
           ELSE LET g == CHOOSE h \in found : TRUE
                    rest == WithoutMember(g.members, memberId)
                    \* save() writes, and stamps updatedAt, only a modified document
                    saved == IF rest = g.members THEN g
                             ELSE [g EXCEPT !.members = rest, !.updatedAt = t]
                IN  IF ~RemoveMemberAllowed(g, u, memberId)
                    THEN /\ UNCHANGED <<groups, now>>
                         /\ res' = Response("removeMember", u, param, "", 403,
                                            MsgRemoveForbidden, NoData)
                    ELSE /\ saved # g => now < MaxTime
                         /\ groups' = (groups \ {g}) \cup {saved}
                         /\ now' = IF saved # g THEN t ELSE now
                         /\ res' = Response("removeMember", u, param, "", 200, "", saved)

(***************************************************************************)
(* Specifications                                                          *)
(***************************************************************************)
Init ==
    /\ conns = {}
    /\ nextId = 0
    /\ pre = {}
    /\ res = NoResponse
    /\ inflight = [s \in Slots |-> IdleSlot]
    /\ scen = ScenStart(NoResponse)
    /\ msgs = {}
    /\ groups = {}
    /\ now = 0
    /\ preChat = [msgs |-> {}, groups |-> {}]
    /\ lastSent = [id |-> 0, sender |-> 0, content |-> <<>>]
    /\ emitted = {}
    /\ okAnswers = [i \in MsgIds |-> 0]

\* res.json(...) reaches the client
Deliver ==
    /\ ~Ready
    /\ res' = NoResponse
    /\ pre' = conns
    /\ preChat' = [msgs |-> msgs, groups |-> groups]
    /\ emitted' = {}
    /\ UNCHANGED <<conns, nextId, inflight, scen, msgs, groups, now, lastSent, okAnswers>>

\* handlers one at a time
Next ==
    \/ \E u \in Users : \E rid \in RecipientInputs(u) : Request(u, rid)
    \/ \E u \in Users, cid \in ConnIds, action \in Actions : Respond(u, cid, action)
    \/ \E u \in Users, cid \in ConnIds : Remove(u, cid)
    \/ \E u \in Users : Discover(u)
    \/ \E u \in Users, other \in UserParams : Status(u, other)
    \/ \E u \in Users : Stats(u)
    \/ Deliver

Spec == Init /\ [][Next]_vars

\* handlers interleaved at their awaits
NextConc ==
    \/ \E s \in Slots, u \in Users : \E rid \in RecipientInputs(u) : RequestBegin(s, u, rid)
    \/ \E s \in Slots : RequestInsert(s)
    \/ \E s \in Slots, u \in Users, cid \in ConnIds, action \in Actions :
           RespondBegin(s, u, cid, action)
    \/ \E s \in Slots : RespondSave(s)
    \/ \E s \in Slots, u \in Users, cid \in ConnIds : RemoveBegin(s, u, cid)
    \/ \E s \in Slots : RemoveDelete(s)
    \/ Deliver

SpecConc == Init /\ [][NextConc]_vars

\* the message handlers one at a time
NextMsg ==
    \/ \E u \in Chatters, body \in SendBodies : ChatSend(u, body)
    \/ \E u \in Chatters, body \in DirectBodies : SendMessage(u, body)
    \/ \E u \in Users, mid \in MessageParams : MarkAsRead(u, mid)
    \/ \E u \in Users, chatId \in ChatParams, isGroup \in IsGroupParams,
          paging \in Pagings : ChatMessages(u, chatId, isGroup, paging)
    \/ \E u \in Users : Chats(u)
    \/ Deliver

SpecMsg == Init /\ [][NextMsg]_vars

\* markAsRead calls interleaved, on messages sent through the controller
NextMark ==
    \/ \E u \in Chatters, v \in Chatters :
           SendMessage(u, DirectBody(Str(v), Text(<<"a">>)))
    \/ \E s \in Slots, u \in Users, mid \in MessageParams : MarkAsReadBegin(s, u, mid)
    \/ \E s \in Slots : MarkAsReadUpdate(s)
    \/ Deliver

SpecMark == Init /\ [][NextMark]_vars

\* the group handlers one at a time
NextGroup ==
    \/ \E u \in Users, name \in GroupNames, members \in MemberLists :
           CreateGroup(u, [name |-> name, members |-> members])
    \/ \E u \in Users, gid \in GroupIdParams, members \in MemberLists :
           AddMembers(u, gid, members)
    \/ \E u \in Users, gid \in GroupIdParams, memberId \in MemberParams :
           RemoveMember(u, gid, memberId)
    \/ \E u \in Chatters, body \in SendBodies : ChatSend(u, body)
    \/ \E u \in Users : Chats(u)
    \/ Deliver

SpecGroup == Init /\ [][NextGroup]_vars

(***************************************************************************)
(* Properties                                                              *)
(***************************************************************************)
\* the Connection documents of cs that join the unordered pair {a, b}
Joining(cs, a, b) == {c \in cs : {c.requester, c.recipient} = {a, b}}

ConflictMessages == {MsgExists, MsgConnected, MsgRejected}

\* C1: with Request handlers run one at a time, no state reached by Request,
\* Respond and Remove holds two Connection documents for the same unordered
\* pair of users, whatever their direction.
AtMostOnePerPair ==
    \A a \in Users, b \in Users : Cardinality(Joining(conns, a, b)) <= 1

\* B asked A for a connection that A -> B already holds, and was refused
ReverseRequestRefused ==
    /\ res.op = "request" /\ res.status = 400
    /\ \E c \in conns : c.recipient = res.user /\ c.requester # res.user
                        /\ res.param = Str(c.requester)

\* C2: while a Connection joins A and B (a Request succeeded and the document
\* has not been removed), Request(A,B) and Request(B,A) answer 400 with a
\* conflict message and leave the collection as it was, for every status of
\* the existing document.
RepeatRequestConflicts ==
    (/\ res.op = "request"
     /\ IsObjectIdString(res.param)
     /\ CastObjectId(res.param) # res.user
     /\ Joining(pre, res.user, CastObjectId(res.param)) # {})
    => (res.status = 400 /\ res.message \in ConflictMessages /\ conns = pre)

\* B repeats a request towards A although they are already connected
RequestWhileConnected ==
    /\ res.op = "request" /\ res.status = 400 /\ res.message = MsgConnected
    /\ \E c \in pre : c.status = "accepted" /\ c.recipient = res.user
                      /\ c.requester # res.user /\ res.param = Str(c.requester)

\* C3: a Respond with a valid action on a Connection whose recipient is not
\* the caller, or whose status is not pending, answers 404 and changes
\* nothing; a Respond changes the collection only by setting the status of a
\* pending Connection whose recipient is the caller.
RespondOnlyRecipientPending ==
    (res.op = "respond" /\ res.action \in {"accept", "reject"}) =>
        /\ \A c \in pre :
              (c._id = res.param /\ (c.recipient # res.user \/ c.status # "pending"))
              => (res.status = 404 /\ conns = pre)
        /\ conns # pre =>
              \E c \in pre :
                  /\ c._id = res.param /\ c.recipient = res.user /\ c.status = "pending"
                  /\ conns = (pre \ {c}) \cup
                       {[c EXCEPT !.status =
                           IF res.action = "accept" THEN "accepted" ELSE "rejected"]}

\* the requester tried to resolve its own pending request
RequesterRespondRefused ==
    /\ res.op = "respond" /\ res.action = "accept" /\ res.status = 404
    /\ \E c \in pre : c._id = res.param /\ c.requester = res.user
                      /\ c.recipient # res.user /\ c.status = "pending"

\* C4: once a Connection's status is accepted or rejected, no step changes
\* it, also when two Respond calls by the recipient overlap between their
\* lookup and their save.
ResolvedOnce ==
    \A c \in pre : (c.requester # c.recipient /\ c.status \in {"accepted", "rejected"}) =>
        \A d \in conns : d._id = c._id => d.status = c.status

\* C5: Discover(A) is exactly the users other than A that no Connection, of
\* any status and direction, joins to A.
DiscoverExact ==
    /\ \A a \in Users :
          AvailableUsers(conns, Str(a)) =
              {b \in Users : b # a /\ Joining(conns, a, b) = {}}
    /\ res.op = "discover" =>
          res.data = {b \in Users : b # res.user /\ Joining(pre, res.user, b) = {}}

\* a Discover that leaves out a user because of a rejected request and still
\* returns another user
DiscoverAfterRejection ==
    /\ res.op = "discover" /\ res.data # {}
    /\ \E c \in conns : /\ c.status = "rejected"
                        /\ c.requester # c.recipient
                        /\ res.user \in {c.requester, c.recipient}
                        /\ {c.requester, c.recipient} \cap res.data = {}

\* C6: in the scenario "a requests b, b rejects, a requests again, a removes
\* the connection, a requests again", the second request answers 400 with
\* the previously-rejected message and changes nothing, the removal leaves no
\* document with that id, and the third request answers 201 and adds one new
\* pending Connection from a to b.
RejectThenReRequest ==
    res.op # "none" =>
        /\ scen.stage = 3 =>
              (res.status = 400 /\ res.message = MsgRejected /\ conns = pre)
        /\ scen.stage = 4 =>
              (res.status = 200 /\ \A c \in conns : c._id # scen.cid)
        /\ scen.stage = 5 =>
              /\ res.status = 201
              /\ res.data._id # scen.cid
              /\ res.data.requester = scen.a /\ res.data.recipient = scen.b
              /\ res.data.status = "pending"
              /\ res.data \notin pre
              /\ conns = pre \cup {res.data}

\* the whole scenario has been played
ScenarioCompleted == scen.stage = 5 /\ res.op = "request"

\* C7: Remove deletes the Connection, whatever its status, when the caller is
\* its requester or its recipient, and otherwise answers 404 and changes
\* nothing; a document only ever disappears through a Remove by one of its
\* two parties.
RemoveOnlyByParty ==
    /\ res.op = "remove" =>
          LET mine == {c \in pre : c._id = res.param
                                   /\ res.user \in {c.requester, c.recipient}}
          IN  IF mine # {}
              THEN res.status = 200 /\ conns = pre \ mine
              ELSE res.status = 404 /\ conns = pre
    /\ \A c \in pre :
          (\A d \in conns : d._id # c._id) =>
              (res.op = "remove" /\ res.user \in {c.requester, c.recipient})

\* a third user tried to remove an accepted connection of two others
OutsiderRemoveRefused ==
    /\ res.op = "remove" /\ res.status = 404
    /\ \E c \in pre : c._id = res.param /\ c.status = "accepted"
                      /\ res.user \notin {c.requester, c.recipient}

\* C8: Request answers 400 when recipientId is absent or names the caller and
\* 404 when it names no user, creating nothing; no Connection has its
\* requester as recipient or a recipient that is no user; a successful
\* Request creates a pending Connection whose requester is the caller.
RequestValidated ==
    /\ res.op = "request" =>
          /\ (res.param = Absent
              \/ (IsObjectIdString(res.param) /\ CastObjectId(res.param) = res.user))
             => (res.status = 400 /\ conns = pre)
          /\ (IsObjectIdString(res.param) /\ CastObjectId(res.param) \notin Users)
             => (res.status = 404 /\ conns = pre)
          /\ res.status = 201 =>
                (res.data.status = "pending" /\ res.data.requester = res.user)
    /\ \A c \in conns : c.requester # c.recipient /\ c.recipient \in Users

\* C9: for B other than A, Status(A,B) has canSendRequest true exactly when
\* no Connection joins A and B, then with status none and no connectionId;
\* otherwise it reports the stored status and isSentByMe exactly when A is
\* the requester; canSendRequest is true exactly when Request(A,B) to an
\* existing user B would not be refused as a conflict.
StatusMatchesStore ==
    (res.op = "status" /\ CastObjectId(res.param) # res.user) =>
        LET joining == Joining(pre, res.user, CastObjectId(res.param))
        IN  /\ res.status = 200
            /\ res.data.canSendRequest = (joining = {})
            /\ joining = {} =>
                  (res.data.status = "none" /\ res.data.connectionId = 0)
            /\ joining # {} =>
                  \E c \in joining :
                      /\ res.data.status = c.status
                      /\ res.data.connectionId = c._id
                      /\ res.data.isSentByMe = (c.requester = res.user)
            /\ CastObjectId(res.param) \in Users =>
                  (res.data.canSendRequest
                     <=> RequestCheck(pre, res.user, res.param).message
                            \notin ConflictMessages)

\* A looked up B, who had sent A a request that A accepted
StatusOfReceivedConnection ==
    /\ res.op = "status" /\ res.status = 200
    /\ res.data.status = "accepted" /\ ~res.data.isSentByMe
    /\ ~res.data.canSendRequest

\* C10: Stats(U) counts the accepted Connections involving U, the pending
\* ones received by U and the pending ones sent by U, and availableUsers is
\* the number of other users less these three counts, or 0 when that is
\* negative.
StatsOf(cs, u) ==
    LET accepted == Cardinality({c \in cs : c.status = "accepted"
                                            /\ u \in {c.requester, c.recipient}})
        received == Cardinality({c \in cs : c.status = "pending" /\ c.recipient = u})
        sent == Cardinality({c \in cs : c.status = "pending" /\ c.requester = u})
        rest == Cardinality(Users \ {u}) - accepted - received - sent
    IN  [totalConnections |-> accepted, pendingReceived |-> received,
         pendingSent |-> sent, availableUsers |-> IF rest < 0 THEN 0 ELSE rest]

StatsExact ==
    /\ \A u \in Users : /\ StatsData(conns, u) = StatsOf(conns, u)
                        /\ StatsData(conns, u).availableUsers >= 0
    /\ res.op = "stats" => res.data = StatsOf(pre, res.user)

\* Stats of a user with an accepted connection it received and a pending
\* request of its own
StatsOfBusyUser ==
    /\ res.op = "stats"
    /\ res.data.totalConnections = 1 /\ res.data.pendingSent = 1
    /\ \E c \in conns : c.status = "accepted" /\ c.recipient = res.user
                        /\ c.requester # res.user

(***************************************************************************)
(* Properties of the message handlers (SpecMsg)                            *)
(***************************************************************************)
\* the stored copy of a message
Stored(ms, id) == {m \in ms : m._id = id}

\* C11: MarkRead answers 200 and sets read exactly when the message exists,
\* its recipient is the caller and it is unread; every other call on a
\* message id (a repeat, the sender, a stranger) answers 404 and changes nothing.
MarkReadOnlyRecipientUnread ==
    (res.op = "markAsRead" /\ IsObjectIdString(res.param)) =>
        LET hit == {m \in Stored(preChat.msgs, CastObjectId(res.param)) :
                        m.recipient = res.user /\ m.read = FALSE}
        IN  IF hit # {}
            THEN /\ res.status = 200
                 /\ msgs = (preChat.msgs \ hit) \cup {[m EXCEPT !.read = TRUE] : m \in hit}
                 /\ res.data \in msgs
            ELSE /\ res.status = 404
                 /\ msgs = preChat.msgs

\* a second MarkRead by the recipient, on a message already read, refused
SecondMarkReadRefused ==
    /\ res.op = "markAsRead"
    /\ res.status = 404
    /\ \E m \in msgs : m._id = CastObjectId(res.param) /\ m.recipient = res.user
                          /\ m.read = TRUE /\ m.sender # res.user

\* C12: after GetMessages, whatever isGroup was, every returned message that
\* someone else sent and that was addressed to the viewer (direct) or belongs
\* to group chatId (group) is read in the store.
GetMessagesMarksReturned ==
    res.op = "messages" =>
        \A i \in 1..Len(res.data) :
            LET m == res.data[i]
                chat == CastObjectId(res.param.chatId)
            IN  (m.sender # res.user /\ (m.recipient = res.user \/ m.groupId = chat))
                    => \A s \in Stored(msgs, m._id) : s.read = TRUE

\* C13: GetMessages leaves the read flag of every message sent by the viewer
\* as it was, whatever chatId and isGroup are.
GetMessagesSparesOwn ==
    res.op = "messages" =>
        \A m \in preChat.msgs : m.sender = res.user => m \in msgs

\* the users U has exchanged a direct message with, and a thread's messages
Thread(ms, u, v) ==
    {m \in ms : /\ m.isGroup = FALSE
                /\ \/ (m.sender = u /\ m.recipient = v)
                   \/ (m.sender = v /\ m.recipient = u)}

Counterparts(ms, u) == {v \in Users : Thread(ms, u, v) # {}}

GroupsOf(gs, u) == {g._id : g \in {h \in gs : IsMember(h, u)}}

EntriesFor(data, isGroup, id) ==
    {i \in 1..Len(data) : data[i].isGroup = isGroup /\ data[i]._id = id}

\* C14: ListChats(U) holds exactly one entry per user U has exchanged a direct
\* message with and exactly one per group U is a member of, and nothing else.
ChatsOnePerThread ==
    res.op = "chats" =>
        /\ \A v \in Counterparts(msgs, res.user) :
              Cardinality(EntriesFor(res.data, FALSE, v)) = 1
        /\ \A g \in GroupsOf(groups, res.user) :
              Cardinality(EntriesFor(res.data, TRUE, g)) = 1
        /\ \A i \in 1..Len(res.data) :
              IF res.data[i].isGroup
              THEN res.data[i]._id \in GroupsOf(groups, res.user)
              ELSE res.data[i]._id \in Counterparts(msgs, res.user)

\* C15: ListChats(U) reports each direct thread with its most recent message
\* and the number of its unread messages addressed to U, and each group with
\* the number of its unread messages sent by others.
ChatsThreadSummary ==
    res.op = "chats" =>
        /\ \A v \in Counterparts(msgs, res.user) \ {res.user} :
              \E i \in EntriesFor(res.data, FALSE, v) :
                  /\ res.data[i].lastMessage =
                        {SortNewestFirst(Thread(msgs, res.user, v))[1]}
                  /\ res.data[i].unreadCount =
                        Cardinality({m \in Thread(msgs, res.user, v) :
                                        m.recipient = res.user /\ m.read = FALSE})
        /\ \A i \in 1..Len(res.data) :
              res.data[i].isGroup =>
                  res.data[i].unreadCount =
                      Cardinality({m \in msgs : /\ m.groupId = res.data[i]._id
                                                /\ m.sender # res.user
                                                /\ m.read = FALSE})

\* the conversation a GetMessages request names, and a message's recency rank
Conversation(ms, u, chat, isGroup) ==
    IF isGroup = "true" THEN {m \in ms : m.groupId = chat}
    ELSE Thread(ms, u, chat)

Rank(conv, m) == Cardinality({o \in conv : o.createdAt > m.createdAt})

PageOf(paging) == IF paging.page.form = "absent" THEN 1 ELSE paging.page.n

LimitOf(paging) == IF paging.limit.form = "absent" THEN 50 ELSE paging.limit.n

\* C16: GetMessages returns, oldest first, exactly the messages of the
\* requested conversation whose recency rank r has
\* (page-1)*limit <= r < (page-1)*limit + page*limit, page defaulting to 1 and
\* limit to 50.
GetMessagesPage ==
    res.op = "messages" =>
        LET conv == Conversation(preChat.msgs, res.user,
                                 CastObjectId(res.param.chatId), res.param.isGroup)
            skip == (PageOf(res.param.paging) - 1) * LimitOf(res.param.paging)
            take == PageOf(res.param.paging) * LimitOf(res.param.paging)
            page == {m \in conv : skip <= Rank(conv, m) /\ Rank(conv, m) < skip + take}
        IN  /\ {res.data[i] : i \in 1..Len(res.data)} = page
            /\ Len(res.data) = Cardinality(page)
            /\ \A i, j \in 1..Len(res.data) :
                  i < j => res.data[i].createdAt < res.data[j].createdAt

\* page 2 of a three-message thread read one message a page: two rows come back
SecondPageOverlaps ==
    /\ res.op = "messages"
    /\ res.param.paging = [page |-> Num(2), limit |-> Num(1)]
    /\ Len(res.data) = 2
    /\ res.data[1].sender # res.data[2].sender

\* a GetMessages request, first page at the default limit, for the conversation
\* of the message a send stored last: by its sender or its recipient when it
\* is direct, on its group when it is a group message
AsksForSent ==
    /\ res.op = "messages"
    /\ res.param.paging = [page |-> NoNum, limit |-> NoNum]
    /\ \E s \in Stored(preChat.msgs, lastSent.id) :
          LET chat == CastObjectId(res.param.chatId)
          IN  IF s.isGroup
              THEN res.param.isGroup = "true" /\ s.groupId = chat
              ELSE /\ res.param.isGroup # "true"
                   /\ \/ (res.user = s.sender /\ chat = s.recipient)
                      \/ (res.user = s.recipient /\ chat = s.sender)

\* t is s without its leading and trailing blanks
IsTrimOf(t, s) ==
    /\ t = <<>> \/ (Head(t) # Blank /\ t[Len(t)] # Blank)
    /\ \E i \in 0..Len(s) : \E j \in i..Len(s) :
          /\ t = SubSeq(s, i + 1, j)
          /\ \A k \in (1..i) \cup ((j + 1)..Len(s)) : s[k] = Blank

BlankSendRefused ==
    /\ (/\ res.op = "send"
        /\ res.param.content.form = "string"
        /\ \A k \in 1..Len(res.param.content.text) : res.param.content.text[k] = Blank)
          => /\ res.status = 400
             /\ msgs = preChat.msgs
             /\ groups = preChat.groups
    /\ (res.op \in {"send", "sendMessage"} /\ res.status \in {200, 201})
          => /\ msgs \ preChat.msgs = {res.data}
             /\ res.data.read = FALSE

\* a blank message for an existing group was refused
BlankGroupSendRefused ==
    /\ res.op = "send"
    /\ res.status = 400
    /\ res.param.isGroup = "true"
    /\ IsObjectIdString(res.param.groupId)
    /\ FindGroup(groups, CastObjectId(res.param.groupId)) # {}

\* C19: every stored message has exactly one of recipient and groupId, the one
\* its isGroup flag calls for.
ExactlyOneTarget ==
    \A m \in msgs :
        IF m.isGroup THEN m.groupId # Unset /\ m.recipient = Unset
        ELSE m.recipient # Unset /\ m.groupId = Unset

(***************************************************************************)
(* Properties of the group handlers (SpecGroup)                            *)
(***************************************************************************)
\* C20: the creator of every group is one of its members.
CreatorIsMember == \A g \in groups : IsMember(g, g.creator)

\* the group a membership request names, as it was before the request
GroupBefore(gid) ==
    IF IsObjectIdString(gid) THEN FindGroup(preChat.groups, CastObjectId(gid)) ELSE {}

\* every id of the list names a user who is a member of g
AllPresent(g, l) == \A i \in 1..Len(l) : IsMember(g, CastObjectId(l[i]))

\* C21: on an existing group, AddMembers by another user than the creator
\* answers 403 and AddMembers by the creator with only present members answers
\* 400; RemoveMember answers 200 when the caller is the creator or names
\* themself and 403 otherwise; a refused call leaves the groups as they were.
MembershipAuthorised ==
    /\ res.op = "addMembers" =>
          \A g \in GroupBefore(res.param.groupId) :
              /\ g.creator # res.user => res.status = 403
              /\ (/\ g.creator = res.user
                  /\ res.param.members.form = "list"
                  /\ AllCastable(res.param.members.list)
                  /\ AllPresent(g, res.param.members.list)) => res.status = 400
    /\ res.op = "removeMember" =>
          \A g \in GroupBefore(res.param.groupId) :
              IF g.creator = res.user \/ CastObjectId(res.param.memberId) = res.user
              THEN res.status = 200
              ELSE res.status = 403
    /\ (res.op \in {"addMembers", "removeMember"} /\ res.status # 200)
          => groups = preChat.groups

\* C26: no user is listed twice in the members of a group.
MembersAreASet ==
    \A g \in groups :
        \A i, j \in 1..Len(g.members) : g.members[i] = g.members[j] => i = j

\* C29: a user who is not a member of a group gets none of its messages from
\* GetMessages and changes none of their read flags, and a send to the group
\* by such a user stores no message and leaves the group untouched.
GroupConfined ==
    /\ (res.op = "messages" /\ res.param.isGroup = "true") =>
          \A g \in GroupBefore(res.param.chatId) :
              ~IsMember(g, res.user) => res.data = <<>> /\ msgs = preChat.msgs
    /\ (res.op = "send" /\ IsGroupOf(res.param)) =>
          \A g \in GroupBefore(res.param.groupId) :
              ~IsMember(g, res.user) => msgs = preChat.msgs /\ groups = preChat.groups

(***************************************************************************)
(* Properties of the read flag                                             *)
(***************************************************************************)
\* C27: a message that an operation creates is unread, a message that was read
\* before an operation is still stored and read after it, and GET /chats
\* changes no read flag.
ReadMonotonic ==
    /\ \A m \in msgs : Stored(preChat.msgs, m._id) = {} => m.read = FALSE
    /\ \A p \in preChat.msgs : p.read => \E m \in Stored(msgs, p._id) : m.read
    /\ res.op = "chats" =>
          \A p \in preChat.msgs : \E m \in Stored(msgs, p._id) : m.read = p.read

\* a message is sent while an earlier one has been read and another is unread
SendAfterRead ==
    /\ res.op \in {"send", "sendMessage"}
    /\ res.status \in {200, 201}
    /\ \E p \in preChat.msgs : p.read
    /\ \E p \in preChat.msgs : ~p.read

(***************************************************************************)
(* Properties of the connection counts                                     *)
(***************************************************************************)
\* C28: for a user with no rejected connection, the availableUsers of GET
\* /stats is the number of users GET /discover returns in the same state.
StatsCountsDiscover ==
    (/\ res.op = "stats"
     /\ ~\E c \in conns : Involves(c, res.user) /\ c.status = "rejected")
        => res.data.availableUsers = Cardinality(AvailableUsers(conns, Str(res.user)))

(***************************************************************************)
(* Properties of overlapping calls                                         *)
(***************************************************************************)
\* C24: a Request whose existence check ran before another Request of the same
\* pair stored its document still succeeds when it reaches its insert, and the
\* store then holds one more document for the pair, two at least.
RequestRaceDuplicates ==
    [][\A s \in Slots :
          (/\ inflight[s].op = "request"
           /\ inflight'[s] = IdleSlot
           /\ \E c \in conns :
                  Between(c, inflight[s].user, CastObjectId(inflight[s].rid)))
          => LET Pair(cs) == {c \in cs : Between(c, inflight[s].user,
                                                 CastObjectId(inflight[s].rid))}
             IN  /\ res'.status = 201
                 /\ Cardinality(Pair(conns')) = Cardinality(Pair(conns)) + 1
                 /\ Cardinality(Pair(conns')) >= 2]_vars

\* A asked B and B asked A at once: both documents are stored
CrossedRequestsStored ==
    /\ res.op = "request"
    /\ res.status = 201
    /\ \E c \in pre : /\ c.requester = res.data.recipient
                      /\ c.recipient = res.data.requester
                      /\ c.requester # c.recipient
                      /\ c \in conns

(***************************************************************************)
(* Properties of the newMessage event                                      *)
(***************************************************************************)
\* a response of one of the two send routes
SendAnswered == res.op \in {"send", "sendMessage"}
SendSucceeded == SendAnswered /\ res.status \in {200, 201}

\* C22: a successful send of a direct message has emitted one newMessage event
\* with the stored message to the room named by the recipient's id; an emitted
\* message is a stored one; a send that failed has emitted nothing.
EmitOnDirectSend ==
    /\ (SendSucceeded /\ ~res.data.isGroup /\ res.data.recipient # Unset) =>
          emitted = {NewMessageEvent(Str(res.data.recipient), res.data, FALSE)}
    /\ \A e \in emitted : e.data \in msgs
    /\ (SendAnswered /\ ~SendSucceeded) => \A e \in emitted : e.threw

MarkReadOnce ==
    /\ \A i \in MsgIds :
          /\ okAnswers[i] <= 1
          /\ okAnswers[i] = 1 <=> \E m \in Stored(msgs, i) : m.read
    /\ (res.op = "markAsRead" /\ IsObjectIdString(res.param)) =>
          IF \E m \in Stored(preChat.msgs, CastObjectId(res.param)) :
                 m.recipient = res.user /\ ~m.read
          THEN res.status = 200
          ELSE res.status = 404

\* a call is answered 200 while another call by the same user on the same
\* message is waiting for the database
OverlappingMarkRead ==
    /\ res.op = "markAsRead"
    /\ res.status = 200
    /\ \E s \in Slots : /\ inflight[s].op = "markAsRead"
                        /\ inflight[s].user = res.user
                        /\ inflight[s].mid = res.param

====
